---------------------------- MODULE Spec2Model ----------------------------
(***************************************************************************)
(* EnsuredBufReader (src/src/lib.rs): a buffered reader over a byte source *)
(* `inner` that keeps at least `ensured_size` bytes in its buffer while    *)
(* the source can still supply them.                                       *)
(*                                                                         *)
(* The reader's fields are the variables buf, pos, cap and ensured_size.   *)
(* The source is a finite byte stream src of which inner_off bytes have    *)
(* been handed out; every call of inner.read may return any positive       *)
(* number of bytes that fits (its chunking), 0 at the end of the stream,   *)
(* or an I/O error.  One step of the model is one constructor call, one    *)
(* consume, the entry of fill_buf_to_expected_size (fast path, size check, *)
(* slide), or one iteration of its fill loop; the step that leaves the     *)
(* loop also runs the rest of the calling handler (read's copy and         *)
(* consume).  Sequences are 1-based: store index i of the code is buf[i+1].*)
(***************************************************************************)
EXTENDS Integers, Sequences, FiniteSets, TLC

VARIABLES
    src,            \* the whole byte stream behind the source
    inner_off,      \* bytes of src the source has produced so far
    buf,            \* EnsuredBufReader.buf  (the store; its length is the capacity)
    pos,            \* EnsuredBufReader.pos  (read_pos)
    cap,            \* EnsuredBufReader.cap  (fill_end)
    ensured_size,   \* EnsuredBufReader.ensured_size
    pc,             \* "new": no reader yet; "idle": between calls; "fill": in the fill loop
    call,           \* the handler call in progress
    ret,            \* what the last finished call returned
    again,          \* set when the last two finished calls were the same peek
    out             \* bytes the caller has taken so far, in order

vars == <<src, inner_off, buf, pos, cap, ensured_size, pc, call, ret, again, out>>

---------------------------------------------------------------------------
(* Bounds of the model *)

\* longest source stream
MaxSrcLen == 4
\* largest store length handed to a constructor
MaxCapacity == 3
\* longest destination slice passed to read
MaxDest == 2

\* byte values found in a caller-supplied store before its first use; they
\* differ from every stream byte, so stale bytes served as data are noticed
Stale == {255}

Min(a, b) == IF a <= b THEN a ELSE b

\* the source streams: the reader never looks at a byte's value, so the
\* i-th byte of a stream is i, which makes any lost, repeated or reordered
\* byte visible
Streams == {[i \in 1..n |-> i] : n \in 0..MaxSrcLen}

---------------------------------------------------------------------------
(* The reader's accessors *)

\* get_capacity: self.buf.as_ref().len()
get_capacity == Len(buf)

\* current_bytes: self.cap - self.pos
current_bytes == cap - pos

\* buffer: &self.buf.as_ref()[self.pos..self.cap]
buffer == SubSeq(buf, pos + 1, cap)

\* a view taken from the head of the store, &buf[..cap]
Region_fromhead(b, p, c) == SubSeq(b, 1, c)

\* the valid region of a store b between cursors p and c
Region(b, p, c) == SubSeq(b, p + 1, c)

---------------------------------------------------------------------------
(* Records describing calls *)

NoCall == [op |-> "none", expected |-> 0, dest |-> 0, calls |-> 0,
           slid |-> FALSE, avail |-> 0]

\* what a finished call reports:
\*   op, arg  the operation and its argument (expected_size of a peek, amt of
\*            consume, ensured_size of a constructor)
\*   len      the length of the slice handed in (read's destination, a
\*            constructor's store)
\*   kind     "ok", "invalid_input", "io_error" or "panic"
\*   view     the slice fill_buf_to_expected_size returned
\*   data, n  the bytes read copied to its destination, and their number
\*   calls    the calls of inner.read made, eof: one of them returned 0
\*   slid     move_buf_to_head ran
\*   avail    bytes buffered plus bytes left in the source when the call began
Result(op, arg, len, kind, view, data, calls, eof, slid, avail) ==
    [op |-> op, arg |-> arg, len |-> len, kind |-> kind, view |-> view,
     data |-> data, n |-> Len(data), calls |-> calls, eof |-> eof,
     slid |-> slid, avail |-> avail]

NoResult == Result("none", 0, 0, "none", <<>>, <<>>, 0, FALSE, FALSE, 0)

\* a successful fill_buf_to_expected_size, called directly or as fill_buf
IsPeek(op) == op \in {"fill_buf_to_expected_size", "fill_buf"}
PeekOk(r) == IsPeek(r.op) /\ r.kind = "ok"

\* again.is: the last finished call is a successful peek(n) and the call
\* finished before it was a successful peek(n) too, which returned again.view
NotAgain == [is |-> FALSE, view |-> <<>>]

Init ==
    /\ src \in Streams
    /\ inner_off = 0
    /\ buf = <<>>
    /\ pos = 0
    /\ cap = 0
    /\ ensured_size = 0
    /\ pc = "new"
    /\ call = NoCall
    /\ ret = NoResult
    /\ again = NotAgain
    /\ out = <<>>

---------------------------------------------------------------------------
(* Constructors *)

\* pub const DEFAULT_ENSURED_BYTES: usize = 128
DEFAULT_ENSURED_BYTES == 128

\* the store lengths handed to the constructors: the short ones, and the
\* shortest one the constructors with the default ensured size accept
StoreLens == 0..MaxCapacity \cup {DEFAULT_ENSURED_BYTES}

\* the capacity check without assert_ne!(ensured_size, 0)
ConstructorAsserts_nozero(capacity, ensured) == capacity >= ensured

\* assert_ne!(ensured_size, 0) and assert!(capacity >= ensured_size)
ConstructorAsserts(capacity, ensured) == ensured # 0 /\ capacity >= ensured

\* the three checked constructors share one body: the two asserts, then
\* EnsuredBufReader { inner, buf, pos: 0, cap: 0, ensured_size }
Construct(name, store, ensured) ==
    /\ pc = "new"
    /\ IF ConstructorAsserts(Len(store), ensured)
       THEN /\ buf' = store
            /\ pos' = 0
            /\ cap' = 0
            /\ ensured_size' = ensured
            /\ pc' = "idle"
            /\ ret' = Result(name, ensured, Len(store), "ok", <<>>, <<>>, 0, FALSE, FALSE, 0)
       ELSE /\ ret' = Result(name, ensured, Len(store), "panic", <<>>, <<>>, 0, FALSE, FALSE, 0)
            /\ UNCHANGED <<buf, pos, cap, ensured_size, pc>>
    /\ again' = NotAgain
    /\ UNCHANGED <<src, inner_off, call, out>>

\* with_capacity_and_ensured_size(capacity, ensured_size, inner): buf: vec![0; capacity]
with_capacity_and_ensured_size ==
    \E capacity \in 0..MaxCapacity, ensured \in 0..(MaxCapacity + 1) :
        Construct("with_capacity_and_ensured_size", [i \in 1..capacity |-> 0], ensured)

\* from_mut_ref_and_ensured_size(buf, ensured_size, inner): a borrowed store
from_mut_ref_and_ensured_size ==
    \E capacity \in 0..MaxCapacity, ensured \in 0..(MaxCapacity + 1), fill \in Stale :
        Construct("from_mut_ref_and_ensured_size", [i \in 1..capacity |-> fill], ensured)

\* from_buffer_and_ensured_size(buf, ensured_size, inner): an owned store
from_buffer_and_ensured_size ==
    \E capacity \in 0..MaxCapacity, ensured \in 0..(MaxCapacity + 1), fill \in Stale :
        Construct("from_buffer_and_ensured_size", [i \in 1..capacity |-> fill], ensured)

\* from_mut_ref and from_buffer: assert!(buf.len() >= DEFAULT_ENSURED_BYTES),
\* then the constructor above with ensured_size = DEFAULT_ENSURED_BYTES
ConstructDefault(name, checked, store) ==
    IF Len(store) >= DEFAULT_ENSURED_BYTES
    THEN Construct(checked, store, DEFAULT_ENSURED_BYTES)
    ELSE /\ pc = "new"
         /\ ret' = Result(name, DEFAULT_ENSURED_BYTES, Len(store), "panic",
                          <<>>, <<>>, 0, FALSE, FALSE, 0)
         /\ again' = NotAgain
         /\ UNCHANGED <<src, inner_off, buf, pos, cap, ensured_size, pc, call, out>>

\* from_mut_ref(buf, inner)
from_mut_ref ==
    \E capacity \in StoreLens, fill \in Stale :
        ConstructDefault("from_mut_ref", "from_mut_ref_and_ensured_size",
                         [i \in 1..capacity |-> fill])

\* from_buffer(buf, inner)
from_buffer ==
    \E capacity \in StoreLens, fill \in Stale :
        ConstructDefault("from_buffer", "from_buffer_and_ensured_size",
                         [i \in 1..capacity |-> fill])

---------------------------------------------------------------------------
(* The source: inner.read(&mut self.buf.as_mut()[self.cap..]) *)

\* the replies the source may give to a read into a slice of len bytes:
\* Ok(k) with 1 <= k <= len while the stream has k more bytes, Ok(0) at the
\* end of the stream (or for an empty slice), or an I/O error
InnerRead(len) ==
    {[kind |-> "ok", n |-> k] : k \in 1..Min(len, Len(src) - inner_off)}
    \cup (IF len = 0 \/ inner_off = Len(src) THEN {[kind |-> "ok", n |-> 0]} ELSE {})
    \cup {[kind |-> "err", n |-> 0]}

\* the replies of a source that never fails
InnerReadOk(len) == {r \in InnerRead(len) : r.kind = "ok"}

\* the source handed the whole store, &mut buf[..], in place of &mut buf[cap..]
Written_at_head(b, c, k) ==
    [i \in 1..Len(b) |-> IF i <= k THEN src[inner_off + i] ELSE b[i]]

\* the store after the source wrote the next k stream bytes at buf[c..c+k]
Written(b, c, k) ==
    [i \in 1..Len(b) |-> IF c < i /\ i <= c + k THEN src[inner_off + (i - c)] ELSE b[i]]

---------------------------------------------------------------------------
(* fill_buf_to_expected_size and the handlers built on it *)

\* a fast path taken one byte too early
FastPath_offbyone(expected) == current_bytes + 1 >= expected

\* if self.current_bytes() >= expected_size { return Ok(self.buffer()); }
FastPath(expected) == current_bytes >= expected

\* a size check that lets capacity + 1 through
TooLarge_offbyone(expected) == Len(buf) + 1 < expected

\* a size check that also rejects a request for the whole store
TooLarge_orequal(expected) == Len(buf) <= expected

\* if self.buf.as_mut().len() < expected_size { return Err(InvalidInput) }
TooLarge(expected) == Len(buf) < expected

\* a fill that never slides
NeedsMove_never(expected) == FALSE

\* a fill that slides whenever it has to read
NeedsMove_always(expected) == TRUE

\* if self.buf.as_mut().len() - self.pos < expected_size { self.move_buf_to_head() }
NeedsMove(expected) == Len(buf) - pos < expected

\* while self.current_bytes() < expected_size
LoopCond(expected, p, c) == c - p < expected

\* a fill that adds nothing to cap
Advance_none(c, n) == c

\* self.cap = n in place of self.cap += n
Advance_assign(c, n) == n

\* self.cap += n
Advance(c, n) == c + n

\* a slide that resets the cursors and forgets to copy
move_buf_to_head_nocopy(b, p, c) == [buf |-> b, pos |-> 0, cap |-> c - p]

\* a slide that forgets self.pos = 0 after the copy
move_buf_to_head_keeppos(b, p, c) ==
    IF p = c
    THEN [buf |-> b, pos |-> 0, cap |-> 0]
    ELSE [buf |-> [i \in 1..Len(b) |-> IF i <= c - p THEN b[p + i] ELSE b[i]],
          pos |-> p,
          cap |-> c - p]

\* a slide that forgets self.cap -= self.pos after the copy
move_buf_to_head_keepcap(b, p, c) ==
    IF p = c
    THEN [buf |-> b, pos |-> 0, cap |-> 0]
    ELSE [buf |-> [i \in 1..Len(b) |-> IF i <= c - p THEN b[p + i] ELSE b[i]],
          pos |-> 0,
          cap |-> c]

\* a slide that drops the bytes before pos from the store (buf.drain(..pos))
\* in place of copying within it
move_buf_to_head_drain(b, p, c) ==
    [buf |-> SubSeq(b, p + 1, Len(b)), pos |-> 0, cap |-> c - p]

\* a slide that copies byte by byte from the last byte to the first, in
\* place: a byte whose source was already overwritten gets the new value
move_buf_to_head_backward(b, p, c) ==
    IF p = c
    THEN [buf |-> b, pos |-> 0, cap |-> 0]
    ELSE LET n == c - p
             r[i \in 1..n] == IF i + p <= n THEN r[i + p] ELSE b[i + p]
         IN  [buf |-> [i \in 1..Len(b) |-> IF i <= n THEN r[i] ELSE b[i]],
              pos |-> 0,
              cap |-> n]

\* move_buf_to_head: copy_within(pos..cap, 0) moves buf[pos..cap] to the head
\* of the store as memmove does, bytes past the moved range keep their value
move_buf_to_head(b, p, c) ==
    IF p = c
    THEN [buf |-> b, pos |-> 0, cap |-> 0]
    ELSE [buf |-> [i \in 1..Len(b) |-> IF i <= c - p THEN b[p + i] ELSE b[i]],
          pos |-> 0,
          cap |-> c - p]

\* an assert that compares amt with self.cap
ConsumeAssert_cap(amt, p, c) == amt <= c

\* an assert that demands a byte be left over, amt < self.current_bytes()
ConsumeAssert_strict(amt, p, c) == amt < c - p

\* assert!(amt <= self.current_bytes()) with the cursors p and c
ConsumeAssert(amt, p, c) == amt <= c - p

\* the bytes of the store that self.pos += amt passes over
Taken(b, p, amt) == SubSeq(b, p + 1, Min(p + amt, Len(b)))

\* a copy that takes the whole view, whatever the length of the destination
CopyLen_all(dest, view) == Len(view)

\* <&[u8] as Read>::read(dest): the number of bytes copied from view
CopyLen(dest, view) == Min(dest, Len(view))

\* the end of a handler once fill_buf_to_expected_size has returned Ok:
\* a peek returns the view; read copies from the view and consumes the copy
Finish(op, expected, dest, b, p, c, calls, eof, slid, avail) ==
    LET view == Region(b, p, c)
        n    == CopyLen(dest, view)
        data == SubSeq(view, 1, n)
    IN  /\ buf' = b
        /\ cap' = c
        /\ pc' = "idle"
        /\ call' = NoCall
        /\ again' = IF IsPeek(op) /\ PeekOk(ret) /\ ret.arg = expected
                     THEN [is |-> TRUE, view |-> ret.view]
                     ELSE NotAgain
        /\ IF op = "read"
           THEN IF ConsumeAssert(n, p, c)
                THEN /\ pos' = p + n
                     /\ out' = out \o data
                     /\ ret' = Result(op, expected, dest, "ok", view, data,
                                      calls, eof, slid, avail)
                ELSE /\ pos' = p
                     /\ out' = out
                     /\ ret' = Result(op, expected, dest, "panic", view, <<>>,
                                      calls, eof, slid, avail)
           ELSE /\ pos' = p
                /\ out' = out
                /\ ret' = Result(op, expected, dest, "ok", view, <<>>,
                                 calls, eof, slid, avail)

\* fill_buf_to_expected_size up to its loop, called by handler op
BeginFill(op, expected, dest) ==
    LET avail == current_bytes + (Len(src) - inner_off)
    IN  /\ pc = "idle"
        /\ UNCHANGED <<src, inner_off, ensured_size>>
        /\ IF FastPath(expected)
           THEN Finish(op, expected, dest, buf, pos, cap, 0, FALSE, FALSE, avail)
           ELSE IF TooLarge(expected)
           THEN /\ ret' = Result(op, expected, dest, "invalid_input", <<>>, <<>>,
                                 0, FALSE, FALSE, avail)
                /\ again' = NotAgain
                /\ UNCHANGED <<buf, pos, cap, pc, call, out>>
           ELSE LET slide == NeedsMove(expected)
                    m == IF slide THEN move_buf_to_head(buf, pos, cap)
                                  ELSE [buf |-> buf, pos |-> pos, cap |-> cap]
                IN  IF LoopCond(expected, m.pos, m.cap)
                    THEN /\ buf' = m.buf
                         /\ pos' = m.pos
                         /\ cap' = m.cap
                         /\ pc' = "fill"
                         /\ call' = [op |-> op, expected |-> expected, dest |-> dest,
                                     calls |-> 0, slid |-> slide, avail |-> avail]
                         /\ UNCHANGED <<ret, again, out>>
                    ELSE Finish(op, expected, dest, m.buf, m.pos, m.cap,
                                0, FALSE, slide, avail)

\* pub fn fill_buf_to_expected_size(&mut self, expected_size: usize)
fill_buf_to_expected_size ==
    \E expected \in 0..(MaxCapacity + 1) :
        BeginFill("fill_buf_to_expected_size", expected, 0)

\* fn fill_buf(&mut self): self.fill_buf_to_expected_size(self.ensured_size)
fill_buf == BeginFill("fill_buf", ensured_size, 0)

\* fn read(&mut self, buf): self.fill_buf()?.read(buf)?; self.consume(n); Ok(n)
read == \E dest \in 0..MaxDest : BeginFill("read", ensured_size, dest)

\* read called with a non-empty destination
read_nonempty == \E dest \in 1..MaxDest : BeginFill("read", ensured_size, dest)

\* a loop that takes no reply of the source for the end of the stream
IsEof_never(n) == FALSE

\* if n == 0 { break; }
IsEof(n) == n = 0

\* one iteration of the fill loop:
\*   let n = self.inner.read(&mut self.buf.as_mut()[self.cap..])?;
\*   if n == 0 { break; }
\*   self.cap += n;
FillStep(reply) ==
    LET calls == call.calls + 1
    IN  /\ pc = "fill"
        /\ UNCHANGED <<src, ensured_size>>
        /\ IF reply.kind = "err"
           THEN /\ ret' = Result(call.op, call.expected, call.dest, "io_error",
                                 <<>>, <<>>, calls, FALSE, call.slid, call.avail)
                /\ pc' = "idle"
                /\ call' = NoCall
                /\ again' = NotAgain
                /\ UNCHANGED <<inner_off, buf, pos, cap, out>>
           ELSE /\ inner_off' = inner_off + reply.n
                /\ IF IsEof(reply.n)
                   THEN Finish(call.op, call.expected, call.dest, buf, pos, cap,
                               calls, TRUE, call.slid, call.avail)
                   ELSE LET b == Written(buf, cap, reply.n)
                            c == Advance(cap, reply.n)
                        IN  IF LoopCond(call.expected, pos, c)
                            THEN /\ buf' = b
                                 /\ cap' = c
                                 /\ call' = [call EXCEPT !.calls = calls]
                                 /\ UNCHANGED <<pos, pc, ret, again, out>>
                            ELSE Finish(call.op, call.expected, call.dest, b, pos, c,
                                        calls, FALSE, call.slid, call.avail)

\* the fill loop over a source that may fail
FillLoop ==
    /\ pc = "fill"
    /\ \E reply \in InnerRead(Len(buf) - cap) : FillStep(reply)

\* the fill loop over a source that never fails
FillLoopOk ==
    /\ pc = "fill"
    /\ \E reply \in InnerReadOk(Len(buf) - cap) : FillStep(reply)

\* fn consume(&mut self, amt: usize): the assert, then self.pos += amt
consume ==
    /\ pc = "idle"
    /\ \E amt \in 0..(MaxCapacity + 1) :
        IF ConsumeAssert(amt, pos, cap)
        THEN /\ pos' = pos + amt
             /\ out' = out \o Taken(buf, pos, amt)
             /\ ret' = Result("consume", amt, 0, "ok", <<>>, <<>>, 0, FALSE, FALSE, 0)
        ELSE /\ ret' = Result("consume", amt, 0, "panic", <<>>, <<>>, 0, FALSE, FALSE, 0)
             /\ UNCHANGED <<pos, out>>
    /\ again' = NotAgain
    /\ UNCHANGED <<src, inner_off, buf, cap, ensured_size, pc, call>>

---------------------------------------------------------------------------
Next ==
    \/ with_capacity_and_ensured_size
    \/ from_mut_ref_and_ensured_size
    \/ from_buffer_and_ensured_size
    \/ from_mut_ref
    \/ from_buffer
    \/ fill_buf_to_expected_size
    \/ fill_buf
    \/ read
    \/ consume
    \/ FillLoop

Spec == Init /\ [][Next]_vars

\* a caller that peeks with fill_buf_to_expected_size and takes bytes with
\* consume, over a source that answers every call made to it: a fill loop
\* that has begun goes on
NextFill ==
    \/ with_capacity_and_ensured_size
    \/ from_mut_ref_and_ensured_size
    \/ from_buffer_and_ensured_size
    \/ from_mut_ref
    \/ from_buffer
    \/ fill_buf_to_expected_size
    \/ consume
    \/ FillLoop

SpecFill == Init /\ [][NextFill]_vars /\ WF_vars(FillLoop)

\* the read loop of the tests read_short and read_long: a reader is built,
\* then only read is called, with a non-empty destination, over a source
\* that does not fail; the caller keeps calling
NextRead ==
    \/ with_capacity_and_ensured_size
    \/ from_mut_ref_and_ensured_size
    \/ from_buffer_and_ensured_size
    \/ from_mut_ref
    \/ from_buffer
    \/ read_nonempty
    \/ FillLoopOk

SpecRead == Init /\ [][NextRead]_vars /\ WF_vars(NextRead)

---------------------------------------------------------------------------
(* The scenario b"aXbYcZ": capacity 4, ensured_size 2; the caller peeks 2
   bytes, consumes 1, peeks 2 bytes again and then reads into a destination
   of 1 byte until read returns 0. The source hands the stream over in
   chunks of any size and may fail; the caller repeats a call that failed *)

\* b"aXbYcZ"
ScenarioStream == <<97, 88, 98, 89, 99, 90>>

InitScenario ==
    /\ src = ScenarioStream
    /\ inner_off = 0
    /\ buf = <<>>
    /\ pos = 0
    /\ cap = 0
    /\ ensured_size = 0
    /\ pc = "new"
    /\ call = NoCall
    /\ ret = NoResult
    /\ again = NotAgain
    /\ out = <<>>

\* a reader of capacity 4 and ensured_size 2 over the source, built on a new
\* store or on a store of the caller's that holds stale bytes
scenario_new ==
    \/ Construct("with_capacity_and_ensured_size", [i \in 1..4 |-> 0], 2)
    \/ \E fill \in Stale :
          Construct("from_mut_ref_and_ensured_size", [i \in 1..4 |-> fill], 2)
    \/ \E fill \in Stale :
          Construct("from_buffer_and_ensured_size", [i \in 1..4 |-> fill], 2)

\* a peek of 2 bytes, as fill_buf_to_expected_size(2) or as fill_buf(), on
\* the new reader and after consume(1), and again when it failed
scenario_peek ==
    /\ \/ ret.op \in {"with_capacity_and_ensured_size", "from_mut_ref_and_ensured_size",
                     "from_buffer_and_ensured_size", "consume"}
       \/ IsPeek(ret.op) /\ ret.kind = "io_error"
    /\ \/ BeginFill("fill_buf_to_expected_size", 2, 0)
       \/ fill_buf

\* consume(1), after the first peek
scenario_consume ==
    /\ PeekOk(ret)
    /\ Len(out) = 0
    /\ consume
    /\ ret'.arg = 1

\* read(&mut [0u8; 1]), after the second peek and after every read that
\* returned a byte or failed
scenario_read ==
    /\ \/ PeekOk(ret) /\ Len(out) = 1
       \/ ret.op = "read" /\ ret.kind = "ok" /\ ret.n > 0
       \/ ret.op = "read" /\ ret.kind = "io_error"
    /\ BeginFill("read", ensured_size, 1)

NextScenario ==
    \/ scenario_new
    \/ scenario_peek
    \/ scenario_consume
    \/ scenario_read
    \/ FillLoop

\* the caller goes on calling, and the source does not fail for ever
SpecScenario ==
    InitScenario /\ [][NextScenario]_vars /\ WF_vars(NextScenario) /\ SF_vars(FillLoopOk)

---------------------------------------------------------------------------
(* Properties *)

\* the bytes taken so far are the head of the stream, in order
OutIsPrefix == Len(out) <= Len(src) /\ out = SubSeq(src, 1, Len(out))

\* 0 <= read_pos <= fill_end <= capacity
CursorsInRange == 0 <= pos /\ pos <= cap /\ cap <= Len(buf)

\* the valid region holds the stream bytes fetched and not yet taken
RegionIsFetched ==
    /\ Len(out) <= inner_off
    /\ inner_off <= Len(src)
    /\ buffer = SubSeq(src, Len(out) + 1, inner_off)

\* the last finished call is a read into a non-empty destination that returned Ok(0)
ReadReturnedZero ==
    pc = "idle" /\ ret.op = "read" /\ ret.kind = "ok" /\ ret.len > 0 /\ ret.n = 0

\* C1 (round trip): when read is called again and again with a non-empty
\* destination over a source that does not fail, whatever the stream, the
\* capacity, the ensured size and the source's chunking, the bytes delivered
\* are at every moment the head of the stream in order (none lost, repeated
\* or reordered), a read that returns 0 has delivered the whole stream, and
\* once a reader exists the loop does reach a read that returns 0.
C1_RoundTrip ==
    /\ [](OutIsPrefix)
    /\ [](ReadReturnedZero => out = src)
    /\ ((pc = "idle") ~> ReadReturnedZero)

\* a read loop that delivered a whole stream longer than the store and then got 0
C1_Witness ==
    /\ ReadReturnedZero
    /\ out = src
    /\ Len(src) = MaxSrcLen
    /\ Len(buf) < Len(src)
    /\ ensured_size > 1

\* C2 (ensured size): a successful fill_buf_to_expected_size(n), and so a
\* successful fill_buf with n = ensured_size, returns a view at least
\* min(n, bytes buffered + bytes the source can still produce) long; the
\* view is shorter than n only if the source returned 0 during that call.
C2_EnsuredSize ==
    (pc = "idle" /\ PeekOk(ret)) =>
        /\ ret.view = buffer
        /\ Len(ret.view) >= Min(ret.arg, ret.avail)
        /\ (Len(ret.view) < ret.arg => ret.eof)
        /\ (ret.op = "fill_buf" =>
                /\ ret.arg = ensured_size
                /\ (ret.avail >= ensured_size => Len(ret.view) >= ensured_size))

\* a peek that had to slide and call the source more than once to reach n
C2_Witness ==
    /\ pc = "idle"
    /\ PeekOk(ret)
    /\ ret.slid
    /\ ret.calls >= 2
    /\ ret.arg = MaxCapacity
    /\ Len(ret.view) >= ret.arg
    /\ Len(out) > 0

\* C3 (capacity bound): fill_buf_to_expected_size(n) with n > capacity
\* returns the InvalidInput error, calls the source not once, and leaves
\* pos, cap and the store as they were; no such call ever enters the fill loop.
C3_CapacityBound ==
    /\ [](pc = "fill" => call.expected <= Len(buf))
    /\ [][(pc' = "idle" /\ ret'.op = "fill_buf_to_expected_size" /\ ret'.arg > Len(buf))
            => (/\ ret'.kind = "invalid_input"
                /\ ret'.calls = 0
                /\ UNCHANGED <<buf, pos, cap, inner_off, ensured_size, out>>)]_vars

\* an over-large request rejected by a reader that holds unconsumed bytes
C3_Witness ==
    /\ pc = "idle"
    /\ ret.op = "fill_buf_to_expected_size"
    /\ ret.kind = "invalid_input"
    /\ ret.arg = Len(buf) + 1
    /\ pos > 0
    /\ current_bytes > 0

\* C4 (cursor invariant): 0 <= pos <= cap <= capacity in every state, also
\* inside the fill loop and after calls that returned an error or panicked.
C4_CursorInvariant == CursorsInRange

\* a call that failed with an I/O error between a consume and the end of the data
C4_Witness ==
    /\ pc = "idle"
    /\ ret.kind = "io_error"
    /\ 0 < pos
    /\ pos < cap
    /\ cap < Len(buf)

\* C5 (valid region): in every state buf[pos..cap] is the stream from offset
\* (bytes consumed) to offset (bytes produced by the source).
C5_ValidRegion == RegionIsFetched

\* a slid, refilled region of several bytes after some bytes were consumed
C5_Witness ==
    /\ pc = "idle"
    /\ ret.kind = "ok"
    /\ ret.slid
    /\ ret.calls >= 1
    /\ Len(out) > 0
    /\ current_bytes >= 2

\* C6 (idempotent peek): of two successful fill_buf_to_expected_size(n)
\* calls in a row, with no other call between them, the second returns the
\* view the first returned, and if the first view had at least n bytes the
\* second call does not call the source.
C6_IdempotentPeek ==
    (pc = "idle" /\ again.is) =>
        /\ ret.view = again.view
        /\ (Len(again.view) >= ret.arg => ret.calls = 0)

\* a short peek at the end of the stream, repeated after some bytes were
\* consumed: the second call asked the source again and returned the same bytes
C6_Witness ==
    /\ pc = "idle"
    /\ again.is
    /\ pos > 0
    /\ ret.calls = 1
    /\ ret.eof
    /\ Len(ret.view) > 0
    /\ Len(ret.view) < ret.arg

\* a constructor call: no reader exists yet and the step reports a constructor
ConstructorNames ==
    {"with_capacity_and_ensured_size", "from_mut_ref_and_ensured_size",
     "from_buffer_and_ensured_size", "from_mut_ref", "from_buffer"}

\* C7 (construction check): a constructor called with ensured_size = 0 or
\* with a store shorter than ensured_size panics and builds no reader; a
\* reader that is built starts with pos = cap = 0 and the ensured size and
\* store it was given; 1 <= ensured_size <= capacity in every later state.
C7_ConstructionCheck ==
    /\ [](pc # "new" => (1 <= ensured_size /\ ensured_size <= Len(buf)))
    /\ [][(pc = "new" /\ ret'.op \in ConstructorNames) =>
            /\ (ret'.arg = 0 \/ ret'.len < ret'.arg)
                    => (ret'.kind = "panic" /\ pc' = "new")
            /\ pc' # "new" => (/\ ret'.kind = "ok"
                               /\ pos' = 0
                               /\ cap' = 0
                               /\ ensured_size' = ret'.arg
                               /\ Len(buf') = ret'.len)]_vars

\* an owned store shorter than the ensured size asked for: the constructor panicked
C7_Witness ==
    /\ pc = "new"
    /\ ret.op = "from_buffer_and_ensured_size"
    /\ ret.kind = "panic"
    /\ ret.len > 0
    /\ ret.arg > ret.len

\* C8 (over-consume): consume(amt) with amt > cap - pos panics and changes
\* nothing, so pos never passes cap.
C8_OverConsume ==
    /\ [](pos <= cap)
    /\ [][(pc' = "idle" /\ ret'.op = "consume" /\ ret'.arg > cap - pos)
            => (/\ ret'.kind = "panic"
                /\ UNCHANGED <<buf, pos, cap, inner_off, ensured_size, out>>)]_vars

\* consume asked for one byte more than the non-empty buffer holds
C8_Witness ==
    /\ pc = "idle"
    /\ ret.op = "consume"
    /\ ret.kind = "panic"
    /\ current_bytes > 0
    /\ ret.arg = current_bytes + 1

\* C9 as claimed: every read that returns 0 leaves an empty buffer behind a
\* source that has reported the end of the stream.
C9_ReadZeroAnyDest ==
    (pc = "idle" /\ ret.op = "read" /\ ret.kind = "ok" /\ ret.n = 0) =>
        (current_bytes = 0 /\ ret.eof)

\* C9 (read returns 0 only at the end): a read into a non-empty destination
\* that returns 0 leaves an empty buffer, the source returned 0 during that
\* call, and the whole stream has been produced and taken.
C9_ReadZeroAtEnd ==
    ReadReturnedZero =>
        /\ current_bytes = 0
        /\ ret.eof
        /\ inner_off = Len(src)

\* a read that returned 0 after the whole of a stream longer than the store was taken
C9_Witness ==
    /\ ReadReturnedZero
    /\ ret.calls = 1
    /\ Len(src) > Len(buf)
    /\ out = src

\* C10 (upstream I/O error): the step in which the source fails ends the
\* call with that error and changes neither the store, the cursors nor the
\* source position; a source call that produces nothing is always the last
\* of its handler call; after the failed call the cursors are in range and
\* the valid region is the stream fetched and not yet taken; and the bytes
\* taken, before and after failures, are always the head of the stream.
C10_UpstreamError ==
    /\ [][(pc = "fill" /\ inner_off' = inner_off) => pc' = "idle"]_vars
    /\ [][(pc = "fill" /\ pc' = "idle" /\ ret'.kind = "io_error")
            => (/\ ret'.op = call.op
                /\ ret'.calls = call.calls + 1
                /\ UNCHANGED <<buf, pos, cap, inner_off, ensured_size, out>>)]_vars
    /\ []((pc = "idle" /\ ret.kind = "io_error") => (CursorsInRange /\ RegionIsFetched))
    /\ [](OutIsPrefix)

\* a read whose fill slid the region, got some bytes and then failed, with
\* bytes taken before and bytes left in the buffer
C10_Witness ==
    /\ pc = "idle"
    /\ ret.op = "read"
    /\ ret.kind = "io_error"
    /\ ret.slid
    /\ ret.calls >= 2
    /\ Len(out) > 0
    /\ current_bytes >= 2

\* C11 (capacity equal to ensured_size): on a reader whose store is exactly
\* ensured_size long, a peek for ensured_size bytes is never rejected as too
\* large; and when nothing has been taken yet and the stream holds at least
\* a store full of bytes, such a peek that succeeds leaves the store full
\* (pos = 0, cap = capacity) of the head of the stream, without a slide.
C11_BoundaryCapacity ==
    (pc = "idle" /\ IsPeek(ret.op) /\ ret.arg = ensured_size /\ Len(buf) = ensured_size) =>
        /\ ret.kind # "invalid_input"
        /\ (ret.kind = "ok" /\ ret.avail = Len(src) /\ Len(src) >= Len(buf)) =>
                /\ pos = 0
                /\ cap = Len(buf)
                /\ ~ret.slid
                /\ ret.view = SubSeq(src, 1, Len(buf))

\* the first peek of a reader with capacity = ensured_size = MaxCapacity
\* filled the whole store in several source calls
C11_Witness ==
    /\ pc = "idle"
    /\ ret.op = "fill_buf_to_expected_size"
    /\ ret.kind = "ok"
    /\ ensured_size = MaxCapacity
    /\ Len(buf) = ensured_size
    /\ ret.arg = ensured_size
    /\ ret.avail = Len(src)
    /\ ret.calls >= 2
    /\ cap = Len(buf)

\* C12 (scenario aXbYcZ, capacity 4, ensured_size 2): for every chunking of
\* the source, and with failed calls repeated, the first peek(2) returns a view that starts with aX; the
\* peek(2) after consume(1) returns at least 2 bytes, the first of them X;
\* every read into a 1-byte destination returns the next byte of the stream
\* until read returns 0; and the run does reach a read that returns 0, with
\* the bytes taken from the reader (the a passed over by consume, then the
\* bytes read) being aXbYcZ exactly.
C12_Scenario ==
    /\ []((PeekOk(ret) /\ Len(out) = 0) =>
            (Len(ret.view) >= 2 /\ SubSeq(ret.view, 1, 2) = <<97, 88>>))
    /\ []((PeekOk(ret) /\ Len(out) = 1) =>
            (out = <<97>> /\ Len(ret.view) >= 2 /\ ret.view[1] = 88))
    /\ []((pc = "idle" /\ ret.op = "read" /\ ret.kind = "ok") =>
            /\ ret.n <= 1
            /\ ret.n = 1 => ret.data = <<ScenarioStream[Len(out)]>>
            /\ ret.n = 0 => out = ScenarioStream)
    /\ [](out = SubSeq(ScenarioStream, 1, Len(out)))
    /\ <>(ReadReturnedZero /\ out = ScenarioStream)

\* the scenario read to its end, the last read having found the stream empty
C12_Witness ==
    /\ src = ScenarioStream
    /\ Len(buf) = 4
    /\ ensured_size = 2
    /\ ReadReturnedZero
    /\ out = ScenarioStream

\* C13 (fixed capacity): once a reader is built, no step of any operation
\* changes the length of its store or its ensured_size; a peek for more
\* bytes than the store holds is rejected with the store as it was, and the
\* fill loop is never entered for such a request.
C13_FixedCapacity ==
    /\ [][pc # "new" => (Len(buf') = Len(buf) /\ ensured_size' = ensured_size)]_vars
    /\ [][(pc = "idle" /\ pc' = "idle" /\ IsPeek(ret'.op) /\ ret'.arg > Len(buf))
            => (ret'.kind = "invalid_input" /\ buf' = buf)]_vars
    /\ [](pc = "fill" => call.expected <= Len(buf))

\* a full store of MaxCapacity bytes, larger than ensured_size, whose reader
\* has just rejected a peek for more bytes than it holds
C13_Witness ==
    /\ pc = "idle"
    /\ ret.op = "fill_buf_to_expected_size"
    /\ ret.kind = "invalid_input"
    /\ Len(buf) = MaxCapacity
    /\ ensured_size < Len(buf)
    /\ cap = Len(buf)

\* C14 (fast path): a peek(expected) that starts with cap - pos >= expected,
\* expected = 0 on an empty buffer included, returns Ok with the valid
\* region as it is and changes neither pos, cap nor the store; it calls
\* the source not once and does not slide; no such peek enters the fill
\* loop or is rejected.
C14_FastPath ==
    /\ [][(pc = "idle" /\ pc' = "idle" /\ IsPeek(ret'.op) /\ ret'.arg <= cap - pos)
            => (/\ ret'.kind = "ok"
                /\ ret'.view = buffer
                /\ ret'.calls = 0
                /\ ~ret'.slid
                /\ UNCHANGED <<buf, pos, cap, inner_off, ensured_size, out>>)]_vars
    /\ [](pc = "fill" => cap - pos < call.expected)

\* a peek answered from the buffer: no source call, more bytes in the view
\* than asked for, and a read position that is not at the head of the store
C14_Witness ==
    /\ pc = "idle"
    /\ ret.op = "fill_buf_to_expected_size"
    /\ ret.kind = "ok"
    /\ ret.arg > 0
    /\ ret.calls = 0
    /\ pos > 0
    /\ Len(ret.view) > ret.arg
    /\ ret.view = buffer

\* C15 (consume frame): consume(amt) with amt <= cap - pos succeeds, adds
\* exactly amt to pos and leaves cap, the store, its length, ensured_size
\* and the source position as they were; the view buffer() gives afterwards
\* is the view before without its first amt bytes, and those amt bytes are
\* the ones taken.
C15_ConsumeFrame ==
    [][(pc' = "idle" /\ ret'.op = "consume" /\ ret'.arg <= cap - pos)
        => (/\ ret'.kind = "ok"
            /\ pos' = pos + ret'.arg
            /\ UNCHANGED <<cap, buf, inner_off, ensured_size, src>>
            /\ buffer' = SubSeq(buffer, ret'.arg + 1, Len(buffer))
            /\ out' = out \o SubSeq(buffer, 1, ret'.arg))]_vars

\* consume(2) from the head of a store that held more than 2 valid bytes
C15_Witness ==
    /\ pc = "idle"
    /\ ret.op = "consume"
    /\ ret.kind = "ok"
    /\ ret.arg = 2
    /\ pos = 2
    /\ current_bytes >= 1

\* C16 (read count): a read that succeeds has peeked ensured_size bytes (its
\* view holds ensured_size bytes, or every byte there was), has copied the
\* first min(dest.len(), view length) bytes of that view to the destination
\* and returned their number, and has advanced pos by that number, so that
\* the rest of the view is what the buffer holds afterwards; a read ends with
\* Ok or with the source's error, never with a rejection or a panic.
C16_ReadCount ==
    /\ []((pc = "idle" /\ ret.op = "read" /\ ret.kind = "ok") =>
            /\ ret.arg = ensured_size
            /\ Len(ret.view) >= Min(ensured_size, ret.avail)
            /\ ret.n = Min(ret.len, Len(ret.view))
            /\ ret.data = SubSeq(ret.view, 1, ret.n)
            /\ buffer = SubSeq(ret.view, ret.n + 1, Len(ret.view)))
    /\ [][(pc' = "idle" /\ ret'.op = "read" /\ ret'.kind = "ok") =>
            (pos' = pos + ret'.n /\ cap' - pos' = Len(ret'.view) - ret'.n)]_vars
    /\ [](pc = "idle" => ret.op # "read" \/ ret.kind \in {"ok", "io_error"})

\* a read into 2 bytes whose view held 3: it returned 2 and one byte stayed
C16_Witness ==
    /\ pc = "idle"
    /\ ret.op = "read"
    /\ ret.kind = "ok"
    /\ ret.len = 2
    /\ Len(ret.view) = 3
    /\ ret.n = 2
    /\ current_bytes = 1

\* C17 (slide only when needed): a peek that is neither answered from the
\* buffer nor rejected enters the fill loop, and in that step it slides the
\* valid region to the head of the store exactly when capacity - pos <
\* expected: if so pos becomes 0 and the region keeps its bytes, if not the
\* store and both cursors stay as they are. Inside the loop pos stays, the
\* store keeps its bytes below cap, and cap only grows. A call that ends
\* without entering the loop has not slid.
C17_SlideOnlyWhenNeeded ==
    /\ [][(pc = "idle" /\ pc' = "fill") =>
            IF Len(buf) - pos < call'.expected
            THEN /\ call'.slid
                 /\ pos > 0
                 /\ pos' = 0
                 /\ cap' = cap - pos
                 /\ SubSeq(buf', 1, cap') = buffer
            ELSE /\ ~call'.slid
                 /\ UNCHANGED <<buf, pos, cap>>]_vars
    /\ [][(pc = "idle" /\ pc' = "idle" /\ (IsPeek(ret'.op) \/ ret'.op = "read"))
            => (~ret'.slid /\ UNCHANGED <<buf, cap>>)]_vars
    /\ [][pc = "fill" =>
            /\ cap' >= cap
            /\ SubSeq(buf', 1, cap) = SubSeq(buf, 1, cap)
            /\ (pc' = "fill" \/ IsPeek(ret'.op)) => pos' = pos]_vars
    /\ [](pc = "idle" /\ ret.slid => ret.calls >= 1)

\* a fill loop entered without a slide although pos is not at the head of
\* the store and bytes are buffered
C17_Witness ==
    /\ pc = "fill"
    /\ IsPeek(call.op)
    /\ ~call.slid
    /\ call.calls = 0
    /\ pos > 0
    /\ cap > pos

\* C18 (slide preserves data): the step in which a fill slides sets pos to
\* 0 and cap to the old cap - pos, keeps the length of the store, and the
\* new buf[0..cap] holds the bytes of the old buf[pos..cap] in their order,
\* whether the two ranges overlap or not and when the region is empty.
C18_SlidePreservesData ==
    [][(pc = "idle" /\ pc' = "fill" /\ call'.slid) =>
        /\ pos' = 0
        /\ cap' = cap - pos
        /\ Len(buf') = Len(buf)
        /\ SubSeq(buf', 1, cap') = SubSeq(buf, pos + 1, cap)
        /\ buffer' = buffer]_vars

\* a fill has just slid 2 or more bytes down by one place: the old and the
\* new range overlap
C18_Witness ==
    /\ pc = "fill"
    /\ call.slid
    /\ call.calls = 0
    /\ pos = 0
    /\ cap >= 2
    /\ Len(buf) = cap + 1

\* C19 (no retry on zero): a source call that produces no byte is the last
\* of its peek; when the source returned 0, that step ends the call with Ok,
\* leaves cap, the store and the source position as they were, and a peek
\* returns the valid region as it stands, which is shorter than asked for;
\* every source call of a peek before its last produced at least one byte.
C19_NoRetryOnZero ==
    /\ [][(pc = "fill" /\ inner_off' = inner_off) => pc' = "idle"]_vars
    /\ [][(pc = "fill" /\ pc' = "idle" /\ ret'.eof) =>
            /\ ret'.kind = "ok"
            /\ ret'.op = call.op
            /\ ret'.calls = call.calls + 1
            /\ UNCHANGED <<buf, cap, inner_off>>
            /\ Len(ret'.view) = cap - pos
            /\ Len(ret'.view) < ret'.arg
            /\ IsPeek(ret'.op) => (ret'.view = buffer /\ pos' = pos)]_vars
    /\ [](pc = "fill" => call.calls <= inner_off)

\* a peek that got some bytes and then a 0 from the source: it returned Ok
\* with fewer bytes than asked for
C19_Witness ==
    /\ pc = "idle"
    /\ ret.op = "fill_buf_to_expected_size"
    /\ ret.kind = "ok"
    /\ ret.eof
    /\ ret.calls >= 2
    /\ Len(ret.view) > 0
    /\ Len(ret.view) < ret.arg

\* C20 (peek terminates): a fill loop that has begun ends, whatever the
\* source answers: every step that stays in the loop raises cap by at least
\* one, cap never passes the capacity, so a call makes at most capacity + 1
\* source calls; the loop is only ever inside while cap - pos < expected,
\* and a step ends the call when the region has reached expected bytes, the
\* source returned 0, or the source failed.
C20_PeekTerminates ==
    /\ (pc = "fill") ~> (pc = "idle")
    /\ [][(pc = "fill" /\ pc' = "fill") =>
            (cap' > cap /\ call'.calls = call.calls + 1 /\ cap' - pos' < call.expected)]_vars
    /\ [][(pc = "fill" /\ pc' = "idle") =>
            \/ ret'.kind = "io_error"
            \/ ret'.kind = "ok" /\ ret'.eof /\ cap' = cap
            \/ ret'.kind = "ok" /\ ~ret'.eof /\ cap' > cap /\ Len(ret'.view) >= ret'.arg]_vars
    /\ [](cap <= Len(buf))
    /\ [](pc = "fill" => (cap - pos < call.expected /\ call.calls <= cap))
    /\ [](pc = "idle" => ret.calls <= Len(buf) + 1)

\* a peek that needed as many source calls as the store has bytes, and more than one
C20_Witness ==
    /\ pc = "idle"
    /\ ret.op = "fill_buf_to_expected_size"
    /\ ret.kind = "ok"
    /\ ~ret.eof
    /\ Len(buf) = MaxCapacity
    /\ ret.calls = Len(buf)
    /\ cap = Len(buf)

\* C21 (no read into an empty range): whenever the fill loop is about to
\* call the source, cap < capacity, so the slice buf[cap..] it hands over
\* is not empty and has room for every byte the request still lacks; and a
\* call in which the source returned 0 ended with the
\* whole stream fetched: the 0 came from the end of the stream, never from
\* a full store.
C21_NoEmptyRead ==
    /\ pc = "fill" => (cap < Len(buf) /\ Len(buf) - cap >= call.expected - (cap - pos))
    /\ (pc = "idle" /\ ret.eof) => inner_off = Len(src)

\* a fill that slid and has fetched bytes is about to call the source with
\* the last byte of the store, the stream not being at its end
C21_Witness ==
    /\ pc = "fill"
    /\ call.slid
    /\ call.calls >= 1
    /\ cap = Len(buf) - 1
    /\ inner_off < Len(src)

=============================================================================
